---- MODULE Spec2Model ----
(***************************************************************************)
(* Model of the idea application: the record store behind get_db, the      *)
(* IdeaRecord -> Idea conversion, the five server endpoints of             *)
(* server_functions.rs, and the Form and Development views that call them. *)
(*                                                                         *)
(* Strings are sequences of one-character strings, so that splitting an    *)
(* id at ':' and rendering a record id are computed character by           *)
(* character.  Option<T> is a sequence of length at most one.              *)
(***************************************************************************)
EXTENDS Integers, Sequences, FiniteSets, TLC

VARIABLES store, last, submitted, deleted, live, form, formCall, dev, saves,
          overtaken, home, event, idea_list, dels, cells, calls, test_store, conv

serverVars == <<store, last, submitted, deleted, live>>
viewVars == <<form, formCall, dev, saves, overtaken, home, event, idea_list, dels>>
\* the List view's state, of which the Form and the Development view touch
\* nothing
listVars == <<idea_list, dels>>
\* the two store handles of db.rs, and the conversion of one document
otherVars == <<cells, calls, test_store, conv>>
vars == <<store, last, submitted, deleted, live, form, formCall, dev, saves,
          overtaken, home, event, idea_list, dels, cells, calls, test_store, conv>>

(***************************************************************************)
(* Bounds of the model.                                                    *)
(***************************************************************************)
\* number of distinct keys the store's key generator draws from
MaxRecords == 2
\* largest value the Home view's refresh counter is driven to
MaxRefresh == 3
\* number of callers of get_db and get_test_db
MaxCallers == 3
\* largest number of ':'-separated parts of an id string a caller sends
MaxParts == 3
\* largest number of statements the Development view's checklist is grown to
MaxList == 2
\* largest number of auto-save tasks of the Development view alive at once
MaxSaves == 2

(***************************************************************************)
(* Option and Result.                                                      *)
(***************************************************************************)
None == <<>>
Some(x) == <<x>>
IsSome(o) == Len(o) = 1
Unwrap(o) == o[1]

Ok(v) == [ok |-> TRUE, val |-> v, err |-> "none"]
Err(kind) == [ok |-> FALSE, val |-> <<>>, err |-> kind]

\* the three messages of server_functions.rs, without the id they embed
InvalidIdFormat == "Invalid ID format"
IdeaNotFound == "Idea not found"
Unit == <<>>

(***************************************************************************)
(* Strings.                                                                *)
(***************************************************************************)
Colon == ":"
EmptyStr == <<>>

\* the literal "ideas" of db.create("ideas") and db.select("ideas")
IdeasTable == <<"i", "d", "e", "a", "s">>
OtherTable == <<"o", "t", "h", "e", "r">>

Comma == ","
Space == " "

\* str::split(sep): the parts between the separators; a string without a
\* separator (the empty string included) is one part
RECURSIVE SplitFrom(_, _, _, _)
SplitFrom(s, sep, i, cur) ==
    IF i > Len(s) THEN <<cur>>
    ELSE IF s[i] = sep THEN <<cur>> \o SplitFrom(s, sep, i + 1, <<>>)
    ELSE SplitFrom(s, sep, i + 1, Append(cur, s[i]))

Split(s, sep) == SplitFrom(s, sep, 1, <<>>)

\* str::trim: without the leading and the trailing whitespace
RECURSIVE TrimStart(_)
TrimStart(s) == IF s # <<>> /\ Head(s) = Space THEN TrimStart(Tail(s)) ELSE s

RECURSIVE TrimEnd(_)
TrimEnd(s) ==
    IF s # <<>> /\ s[Len(s)] = Space THEN TrimEnd(SubSeq(s, 1, Len(s) - 1)) ELSE s

Trim(s) == TrimEnd(TrimStart(s))

\* Thing::to_string: "<tb>:<id>"
ThingToString(thing) == thing.tb \o <<Colon>> \o thing.id

Thing(tb, id) == [tb |-> tb, id |-> id]

(***************************************************************************)
(* Idea and IdeaRecord (db.rs).                                            *)
(***************************************************************************)
IdeaRecord(id, title, description, tags, wmbt, notes) ==
    [id |-> id, title |-> title, description |-> description, tags |-> tags,
     what_must_be_true |-> wmbt, development_notes |-> notes]

\* no document is being converted
NoConv == <<>>

\* a stored document: the four fields every version of the application has
\* written, and the two development fields when the document has them
Document(id, title, description, tags, wmbt, notes) ==
    LET fields == {"id", "title", "description", "tags"}
                    \cup (IF IsSome(wmbt) THEN {"what_must_be_true"} ELSE {})
                    \cup (IF IsSome(notes) THEN {"development_notes"} ELSE {})
    IN [f \in fields |->
          CASE f = "id" -> id
            [] f = "title" -> title
            [] f = "description" -> description
            [] f = "tags" -> tags
            [] f = "what_must_be_true" -> Unwrap(wmbt)
            [] f = "development_notes" -> Unwrap(notes)]

\* #[derive(Deserialize)] of IdeaRecord: a field marked #[serde(default)]
\* that the document lacks gets its type's default
DeserializeIdeaRecord(doc) ==
    [id |-> doc.id,
     title |-> doc.title,
     description |-> doc.description,
     tags |-> doc.tags,
     what_must_be_true |->
        IF "what_must_be_true" \in DOMAIN doc THEN doc.what_must_be_true ELSE <<>>,
     development_notes |->
        IF "development_notes" \in DOMAIN doc THEN doc.development_notes ELSE EmptyStr]

\* the conversion rendering the record id by its key alone
IdeaFromRecord_key_only(record) ==
    [id |-> IF IsSome(record.id) THEN Some(Unwrap(record.id).id) ELSE None,
     title |-> record.title,
     description |-> record.description,
     tags |-> record.tags,
     what_must_be_true |-> record.what_must_be_true,
     development_notes |-> record.development_notes]

\* impl From<IdeaRecord> for Idea
IdeaFromRecord(record) ==
    [id |-> IF IsSome(record.id) THEN Some(ThingToString(Unwrap(record.id))) ELSE None,
     title |-> record.title,
     description |-> record.description,
     tags |-> record.tags,
     what_must_be_true |-> record.what_must_be_true,
     development_notes |-> record.development_notes]

(***************************************************************************)
(* The record store: a function from the record ids in use to the stored   *)
(* documents.  The operations are those the endpoints call on the handle   *)
(* returned by get_db; each returns the new store and the call's value.    *)
(***************************************************************************)
EmptyStore == [t \in {} |-> None]

Without(db, thing) == [t \in (DOMAIN db) \ {thing} |-> db[t]]
With(db, thing, record) ==
    [t \in (DOMAIN db) \cup {thing} |-> IF t = thing THEN record ELSE db[t]]

\* db.create(table).content(record): stores the document under a fresh key
\* of the table and returns it with its id
DbCreate(db, table, key, record) ==
    LET thing == Thing(table, key)
        stored == [record EXCEPT !.id = Some(thing)]
    IN [db |-> With(db, thing, stored), val |-> Some(stored)]

\* db.select(table): every document of the table; order is the store's own
\* order of all its record ids
TableThings(db, table) == {t \in DOMAIN db : t.tb = table}
DbSelectAll(db, table, order) ==
    LET things == SelectSeq(order, LAMBDA t : t.tb = table)
    IN [db |-> db, val |-> [i \in 1..Len(things) |-> db[things[i]]]]

\* db.select((table, key))
DbSelect(db, table, key) ==
    LET thing == Thing(table, key)
    IN [db |-> db, val |-> IF thing \in DOMAIN db THEN Some(db[thing]) ELSE None]

\* db.update((table, key)).content(record): replaces the document of an
\* existing record, whose id stays the one it is stored under
DbUpdate(db, table, key, record) ==
    LET thing == Thing(table, key)
        stored == [record EXCEPT !.id = Some(thing)]
    IN IF thing \in DOMAIN db
       THEN [db |-> With(db, thing, stored), val |-> Some(stored)]
       ELSE [db |-> db, val |-> None]

\* db.delete((table, key))
DbDelete(db, table, key) ==
    LET thing == Thing(table, key)
    IN IF thing \in DOMAIN db
       THEN [db |-> Without(db, thing), val |-> Some(db[thing])]
       ELSE [db |-> db, val |-> None]

(***************************************************************************)
(* The two store handles (db.rs): each is the value of a static OnceCell.  *)
(* A cell holds its value once set, a permit that the one caller running   *)
(* the initialization holds, and the number of runs of the initialization  *)
(* started.  A handle names its cell and the run that made it.             *)
(***************************************************************************)
DB == "DB"
TEST_DB == "TEST_DB"

CellInit == [value |-> None, permit |-> FALSE, runs |-> 0]

\* the tasks that call get_db or get_test_db, each once
Callers == 1..MaxCallers
CallerInit == [pc |-> "idle", fn |-> "none", cell |-> "none", handle |-> None]

\* get_test_db using the static of get_db
get_test_db_shares_cell == DB

\* the cells the two functions call get_or_init on
get_db == DB
get_test_db == TEST_DB

\* get_or_init starting the initialization whenever the cell is empty
get_or_init_unguarded(cell) == cell.value = None

\* get_or_init may start the initialization: the cell is empty and no
\* other caller holds the permit
get_or_init(cell) == cell.value = None /\ ~cell.permit

\* Surreal::new::<RocksDb>("ideas.db") and Surreal::new::<Mem>(()): the
\* store behind a handle of the cell
Backing(cell) == IF cell = DB THEN "ideas.db" ELSE "mem"

(***************************************************************************)
(* The server endpoints (server_functions.rs).  Each is a function of the  *)
(* store and the request to the new store and the response.                *)
(***************************************************************************)
\* submit_idea_server with title and description taken for one another
submit_idea_server_swapped(db, key, title, description, tags) ==
    LET idea == IdeaRecord(None, description, title, tags, <<>>, EmptyStr)
        created == DbCreate(db, IdeasTable, key, idea)
    IN IF IsSome(created.val)
       THEN [db |-> created.db, result |-> Ok(IdeaFromRecord(Unwrap(created.val)))]
       ELSE [db |-> created.db, result |-> Err("Failed to create idea")]

submit_idea_server(db, key, title, description, tags) ==
    LET idea == IdeaRecord(None, title, description, tags, <<>>, EmptyStr)
        created == DbCreate(db, IdeasTable, key, idea)
    IN IF IsSome(created.val)
       THEN [db |-> created.db, result |-> Ok(IdeaFromRecord(Unwrap(created.val)))]
       ELSE [db |-> created.db, result |-> Err("Failed to create idea")]

\* get_all_ideas_server selecting another table than the one Submit fills
get_all_ideas_server_wrong_table(db, order) ==
    LET ideas == DbSelectAll(db, OtherTable, order)
    IN [db |-> ideas.db,
        result |-> Ok([i \in 1..Len(ideas.val) |-> IdeaFromRecord(ideas.val[i])])]

get_all_ideas_server(db, order) ==
    LET ideas == DbSelectAll(db, IdeasTable, order)
    IN [db |-> ideas.db,
        result |-> Ok([i \in 1..Len(ideas.val) |-> IdeaFromRecord(ideas.val[i])])]

\* delete_idea_server deleting by the table alone: db.delete(table)
delete_idea_server_whole_table(db, id) ==
    LET parts == Split(id, Colon)
    IN IF Len(parts) # 2
       THEN [db |-> db, result |-> Err(InvalidIdFormat)]
       ELSE [db |-> [t \in (DOMAIN db) \ TableThings(db, parts[1]) |-> db[t]],
             result |-> Ok(Unit)]

\* delete_idea_server passing (record_id, table) for (table, record_id)
delete_idea_server_swapped_parts(db, id) ==
    LET parts == Split(id, Colon)
    IN IF Len(parts) # 2
       THEN [db |-> db, result |-> Err(InvalidIdFormat)]
       ELSE LET del == DbDelete(db, parts[2], parts[1])
            IN [db |-> del.db, result |-> Ok(Unit)]

\* delete_idea_server treating an empty delete result as an error
delete_idea_server_requires_record(db, id) ==
    LET parts == Split(id, Colon)
    IN IF Len(parts) # 2
       THEN [db |-> db, result |-> Err(InvalidIdFormat)]
       ELSE LET del == DbDelete(db, parts[1], parts[2])
            IN IF IsSome(del.val)
               THEN [db |-> del.db, result |-> Ok(Unit)]
               ELSE [db |-> del.db, result |-> Err(IdeaNotFound)]

delete_idea_server(db, id) ==
    LET parts == Split(id, Colon)
    IN IF Len(parts) # 2
       THEN [db |-> db, result |-> Err(InvalidIdFormat)]
       ELSE LET del == DbDelete(db, parts[1], parts[2])
            IN [db |-> del.db, result |-> Ok(Unit)]

\* get_idea_by_id_server answering a missing record with the format error
get_idea_by_id_server_one_error(db, id) ==
    LET parts == Split(id, Colon)
    IN IF Len(parts) # 2
       THEN [db |-> db, result |-> Err(InvalidIdFormat)]
       ELSE LET idea == DbSelect(db, parts[1], parts[2])
            IN IF IsSome(idea.val)
               THEN [db |-> idea.db, result |-> Ok(IdeaFromRecord(Unwrap(idea.val)))]
               ELSE [db |-> idea.db, result |-> Err(InvalidIdFormat)]

get_idea_by_id_server(db, id) ==
    LET parts == Split(id, Colon)
    IN IF Len(parts) # 2
       THEN [db |-> db, result |-> Err(InvalidIdFormat)]
       ELSE LET idea == DbSelect(db, parts[1], parts[2])
            IN IF IsSome(idea.val)
               THEN [db |-> idea.db, result |-> Ok(IdeaFromRecord(Unwrap(idea.val)))]
               ELSE [db |-> idea.db, result |-> Err(IdeaNotFound)]

\* update_idea_server building the record as submit_idea_server does, with
\* an empty checklist
update_idea_server_drops_checklist(db, id, title, description, tags, wmbt, notes) ==
    LET parts == Split(id, Colon)
    IN IF Len(parts) # 2
       THEN [db |-> db, result |-> Err(InvalidIdFormat)]
       ELSE LET updated == IdeaRecord(None, title, description, tags, <<>>, notes)
                res == DbUpdate(db, parts[1], parts[2], updated)
            IN IF IsSome(res.val)
               THEN [db |-> res.db, result |-> Ok(IdeaFromRecord(Unwrap(res.val)))]
               ELSE [db |-> res.db, result |-> Err(IdeaNotFound)]

\* update_idea_server creating the record when there is none
update_idea_server_upserts(db, id, title, description, tags, wmbt, notes) ==
    LET parts == Split(id, Colon)
    IN IF Len(parts) # 2
       THEN [db |-> db, result |-> Err(InvalidIdFormat)]
       ELSE LET updated == IdeaRecord(None, title, description, tags, wmbt, notes)
                res == DbUpdate(db, parts[1], parts[2], updated)
                made == DbCreate(db, parts[1], parts[2], updated)
            IN IF IsSome(res.val)
               THEN [db |-> res.db, result |-> Ok(IdeaFromRecord(Unwrap(res.val)))]
               ELSE [db |-> made.db, result |-> Ok(IdeaFromRecord(Unwrap(made.val)))]

\* update_idea_server returning the record it built, not the stored one
update_idea_server_echoes_request(db, id, title, description, tags, wmbt, notes) ==
    LET parts == Split(id, Colon)
    IN IF Len(parts) # 2
       THEN [db |-> db, result |-> Err(InvalidIdFormat)]
       ELSE LET updated == IdeaRecord(None, title, description, tags, wmbt, notes)
                res == DbUpdate(db, parts[1], parts[2], updated)
            IN IF IsSome(res.val)
               THEN [db |-> res.db, result |-> Ok(IdeaFromRecord(updated))]
               ELSE [db |-> res.db, result |-> Err(IdeaNotFound)]

update_idea_server(db, id, title, description, tags, wmbt, notes) ==
    LET parts == Split(id, Colon)
    IN IF Len(parts) # 2
       THEN [db |-> db, result |-> Err(InvalidIdFormat)]
       ELSE LET updated == IdeaRecord(None, title, description, tags, wmbt, notes)
                res == DbUpdate(db, parts[1], parts[2], updated)
            IN IF IsSome(res.val)
               THEN [db |-> res.db, result |-> Ok(IdeaFromRecord(Unwrap(res.val)))]
               ELSE [db |-> res.db, result |-> Err(IdeaNotFound)]

(***************************************************************************)
(* Requests.  The id strings a caller sends are built from chunks joined   *)
(* by ':' : a table part, a key part, and further parts.                   *)
(***************************************************************************)
KeyDigits == <<"1", "2", "3", "4", "5", "6", "7", "8", "9">>
Key(n) == <<"k", KeyDigits[n]>>
Keys == {Key(n) : n \in 1..MaxRecords}

TableChunks == {EmptyStr, IdeasTable, OtherTable}
KeyChunks == {EmptyStr} \cup Keys
ExtraChunk == <<"x">>

RECURSIVE Join(_)
Join(parts) ==
    IF Len(parts) = 1 THEN parts[1]
    ELSE parts[1] \o <<Colon>> \o Join(Tail(parts))

\* one part: no colon; two parts: any table chunk and any key chunk, either
\* of which may be empty; more parts: an id of the ideas table followed by
\* further parts
PartLists(n) ==
    IF n = 1 THEN {<<t>> : t \in TableChunks}
    ELSE IF n = 2 THEN {<<t, k>> : t \in TableChunks, k \in KeyChunks}
    ELSE {<<IdeasTable, k>> \o [i \in 1..(n - 2) |-> ExtraChunk] : k \in KeyChunks}

IdStrings == UNION {{Join(p) : p \in PartLists(n)} : n \in 1..MaxParts}

SubmitInputs ==
    {[title |-> <<"t">>, description |-> <<"d">>, tags |-> << <<"a">>, <<"b">> >>],
     [title |-> <<"u">>, description |-> EmptyStr, tags |-> <<>>]}

UpdateInputs ==
    {[title |-> <<"t">>, description |-> <<"d">>, tags |-> << <<"a">>, <<"b">> >>,
      what_must_be_true |-> <<>>, development_notes |-> EmptyStr],
     [title |-> <<"u">>, description |-> EmptyStr, tags |-> <<>>,
      what_must_be_true |-> << <<"x">>, <<"y">> >>, development_notes |-> <<"n">>]}

\* the orders in which the store may hold its record ids
Orders(db) ==
    LET n == Cardinality(DOMAIN db)
    IN {o \in [1..n -> DOMAIN db] : \A i, j \in 1..n : o[i] = o[j] => i = j}

\* the keys the store may assign to a new document of the table
FreshKeys(db, table) == {k \in Keys : Thing(table, k) \notin DOMAIN db}

\* the id strings under which the store holds a record
StoredIds(db) == {ThingToString(t) : t \in DOMAIN db}

(***************************************************************************)
(* One served request: the store changes as the endpoint says.  Beside the *)
(* store the model keeps what the claims need of the past:                 *)
(*   submitted id -> the request and response of the Submit that returned  *)
(*             it, until an Update or Delete request names the id          *)
(*   deleted   ids of stored ideas a Delete request removed, until a       *)
(*             Submit returns the id again                                 *)
(*   live      ids returned by Submit and not named by a successful Delete *)
(*   last      the most recent request made by the direct caller of Spec   *)
(*             and its response; prior is the idea the store held under    *)
(*             the request's id before the request                         *)
(***************************************************************************)
NoArgs == <<>>
Call(op, id, args, prior, result) ==
    [op |-> op, id |-> id, args |-> args, prior |-> prior, result |-> result]

Held(db, id) ==
    LET things == {t \in DOMAIN db : ThingToString(t) = id}
    IN IF things = {} THEN None
       ELSE Some(IdeaFromRecord(db[CHOOSE t \in things : TRUE]))

Forget(f, id) == [x \in (DOMAIN f) \ {id} |-> f[x]]

SubmitOf(key, in) == submit_idea_server(store, key, in.title, in.description, in.tags)

UpdateOf(id, in) ==
    update_idea_server(store, id, in.title, in.description, in.tags,
                       in.what_must_be_true, in.development_notes)

ServeSubmit(key, in) ==
    LET r == SubmitOf(key, in)
        id == IF r.result.ok /\ IsSome(r.result.val.id) THEN Unwrap(r.result.val.id) ELSE EmptyStr
    IN /\ store' = r.db
       /\ submitted' = IF r.result.ok
                       THEN [x \in (DOMAIN submitted) \cup {id} |->
                               IF x = id THEN [args |-> in, idea |-> r.result.val]
                               ELSE submitted[x]]
                       ELSE submitted
       /\ deleted' = IF r.result.ok THEN deleted \ {id} ELSE deleted
       /\ live' = IF r.result.ok THEN live \cup {id} ELSE live

ServeListAll(order) ==
    /\ store' = get_all_ideas_server(store, order).db
    /\ UNCHANGED <<submitted, deleted, live>>

ServeGetById(id) ==
    /\ store' = get_idea_by_id_server(store, id).db
    /\ UNCHANGED <<submitted, deleted, live>>

ServeUpdate(id, in) ==
    /\ store' = UpdateOf(id, in).db
    /\ submitted' = Forget(submitted, id)
    /\ UNCHANGED <<deleted, live>>

ServeDelete(id) ==
    LET r == delete_idea_server(store, id)
    IN /\ store' = r.db
       /\ submitted' = Forget(submitted, id)
       /\ deleted' = IF r.result.ok /\ id \in StoredIds(store)
                     THEN deleted \cup {id} ELSE deleted
       /\ live' = IF r.result.ok THEN live \ {id} ELSE live

(***************************************************************************)
(* The Home view (views/home.rs): the parent of the Form and the List.     *)
(* event is the most recent event of the Home route: a confirm dialog      *)
(* answered, or an endpoint call of the Form or the List returned.         *)
(***************************************************************************)
HomeInit == [refresh_trigger |-> 0, show_form |-> FALSE]

NoEvent == [op |-> "none", id |-> EmptyStr, confirmed |-> FALSE, result |-> Ok(Unit)]
Event(op, id, confirmed, result) ==
    [op |-> op, id |-> id, confirmed |-> confirmed, result |-> result]

\* what an endpoint call answers when the store call or the transport fails
StoreFailure == "store failure"

\* the closure Home passes to IdeaForm
on_submit_success(h) ==
    [refresh_trigger |-> h.refresh_trigger + 1, show_form |-> FALSE]

\* the closure Home passes to IdeaList
on_delete_success(h) == [h EXCEPT !.refresh_trigger = h.refresh_trigger + 1]

\* the calls of the Home route that have not returned
InFlight == Len(formCall) + Len(dels)

(***************************************************************************)
(* The Form view (components/idea_form.rs).                                *)
(***************************************************************************)
NoMessage == "none"
SubmittedMessage == "idea submitted successfully"
ErrorMessage == "error"

FormInit ==
    [title |-> EmptyStr, description |-> EmptyStr, tags_input |-> EmptyStr,
     is_submitting |-> FALSE, success_message |-> NoMessage]

\* what the user types into the three inputs
TitleInputs == {EmptyStr, <<"t">>}
DescriptionInputs == {EmptyStr, <<"d">>}
TagsInputs ==
    {EmptyStr,
     <<"a", ",", "b">>,
     <<" ", "a", ",", " ", ",", "b", " ">>,
     <<",", " ">>}

\* tags_input().split(',').map(|s| s.trim()).filter(|s| !s.is_empty())
ParseTags(input) ==
    LET parts == Split(input, Comma)
        trimmed == [i \in 1..Len(parts) |-> Trim(parts[i])]
    IN SelectSeq(trimmed, LAMBDA t : t # EmptyStr)

FormTitleInput ==
    /\ ~dev.open
    /\ home.show_form
    /\ \E v \in TitleInputs : form' = [form EXCEPT !.title = v]
    /\ UNCHANGED <<serverVars, formCall, dev, saves, overtaken, home, event>>
    /\ UNCHANGED <<listVars, otherVars>>

FormDescriptionInput ==
    /\ ~dev.open
    /\ home.show_form
    /\ \E v \in DescriptionInputs : form' = [form EXCEPT !.description = v]
    /\ UNCHANGED <<serverVars, formCall, dev, saves, overtaken, home, event>>
    /\ UNCHANGED <<listVars, otherVars>>

FormTagsInput ==
    /\ ~dev.open
    /\ home.show_form
    /\ \E v \in TagsInputs : form' = [form EXCEPT !.tags_input = v]
    /\ UNCHANGED <<serverVars, formCall, dev, saves, overtaken, home, event>>
    /\ UNCHANGED <<listVars, otherVars>>

\* onsubmit up to the await: the inputs marked required are filled in and
\* the submit button is not disabled
FormSubmitCall ==
    /\ ~dev.open
    /\ home.show_form
    /\ ~form.is_submitting
    /\ form.title # EmptyStr
    /\ form.description # EmptyStr
    /\ formCall = None
    /\ home.refresh_trigger + InFlight < MaxRefresh
    /\ form' = [form EXCEPT !.is_submitting = TRUE]
    /\ formCall' = Some([title |-> form.title, description |-> form.description,
                         tags |-> ParseTags(form.tags_input)])
    /\ UNCHANGED <<serverVars, dev, saves, overtaken, home, event>>
    /\ UNCHANGED <<listVars, otherVars>>

\* the server serves the request, and onsubmit runs from the await to its end
\* onsubmit leaving at the error, as with the ? operator
onsubmit_resume_early_return(f, result) ==
    IF result.ok
    THEN [title |-> EmptyStr, description |-> EmptyStr,
          tags_input |-> EmptyStr, is_submitting |-> FALSE,
          success_message |-> SubmittedMessage]
    ELSE [f EXCEPT !.success_message = ErrorMessage]

\* onsubmit from the await to its end, given the call's result
onsubmit_resume(f, result) ==
    IF result.ok
    THEN [title |-> EmptyStr, description |-> EmptyStr,
          tags_input |-> EmptyStr, is_submitting |-> FALSE,
          success_message |-> SubmittedMessage]
    ELSE [f EXCEPT !.is_submitting = FALSE, !.success_message = ErrorMessage]

FormSubmitReturn ==
    /\ formCall # None
    /\ \E key \in FreshKeys(store, IdeasTable) :
          LET result == SubmitOf(key, Unwrap(formCall)).result
          IN /\ ServeSubmit(key, Unwrap(formCall))
             /\ form' = onsubmit_resume(form, result)
             /\ home' = IF result.ok THEN on_submit_success(home) ELSE home
             /\ event' = Event("submit", EmptyStr, FALSE, result)
    /\ formCall' = None
    /\ UNCHANGED <<last, dev, saves, overtaken>>
    /\ UNCHANGED <<listVars, otherVars>>

\* the call fails at the store or on the way, and onsubmit runs to its end
FormSubmitFail ==
    /\ formCall # None
    /\ form' = onsubmit_resume(form, Err(StoreFailure))
    /\ event' = Event("submit", EmptyStr, FALSE, Err(StoreFailure))
    /\ formCall' = None
    /\ UNCHANGED <<serverVars, dev, saves, overtaken, home>>
    /\ UNCHANGED <<listVars, otherVars>>

\* onclick of the "add idea" button: Home renders a new IdeaForm
HomeShowForm ==
    /\ ~dev.open
    /\ ~home.show_form
    /\ home' = [home EXCEPT !.show_form = TRUE]
    /\ form' = FormInit
    /\ UNCHANGED <<serverVars, formCall, dev, saves, overtaken, event>>
    /\ UNCHANGED <<listVars, otherVars>>

(***************************************************************************)
(* The List view (components/idea_list.rs).  ideas is the value of the     *)
(* resource, fetched the refresh counter it was last run for; dels are the *)
(* tasks the delete buttons have spawned.                                  *)
(***************************************************************************)
ListInit == [ideas |-> None, fetched |-> None]

\* the match on ideas() renders the error paragraph
ListShowsError(l) == IsSome(l.ideas) /\ ~Unwrap(l.ideas).ok

\* the ideas the List renders, each with its buttons
ListRendered ==
    IF IsSome(idea_list.ideas) /\ Unwrap(idea_list.ideas).ok
    THEN Unwrap(idea_list.ideas).val
    ELSE <<>>

\* use_resource: the first run, and a run after every change of the refresh
\* counter; get_all_ideas_server answers
ListFetch ==
    /\ ~dev.open
    /\ idea_list.fetched # Some(home.refresh_trigger)
    /\ \E order \in Orders(store) :
          LET result == get_all_ideas_server(store, order).result
          IN /\ ServeListAll(order)
             /\ idea_list' = [ideas |-> Some(result), fetched |-> Some(home.refresh_trigger)]
             /\ event' = Event("list", EmptyStr, FALSE, result)
    /\ UNCHANGED <<last, form, formCall, dev, saves, overtaken, home, dels, otherVars>>

\* the same run when the call fails at the store or on the way
ListFetchFail ==
    /\ ~dev.open
    /\ idea_list.fetched # Some(home.refresh_trigger)
    /\ idea_list' = [ideas |-> Some(Err(StoreFailure)), fetched |-> Some(home.refresh_trigger)]
    /\ event' = Event("list", EmptyStr, FALSE, Err(StoreFailure))
    /\ UNCHANGED <<serverVars, form, formCall, dev, saves, overtaken, home, dels, otherVars>>

\* onclick of the delete button of a rendered idea: a task is spawned that
\* holds the idea's id
ListDeleteClick ==
    /\ ~dev.open
    /\ home.refresh_trigger + InFlight < MaxRefresh
    /\ \E i \in 1..Len(ListRendered) :
          /\ IsSome(ListRendered[i].id)
          /\ dels' = Append(dels, [pc |-> "spawned", id |-> Unwrap(ListRendered[i].id)])
    /\ UNCHANGED <<serverVars, form, formCall, dev, saves, overtaken, home, event, idea_list>>
    /\ UNCHANGED otherVars

\* the delete task that calls whatever the user answers
delete_task_unconfirmed(task, confirmed) == Some([task EXCEPT !.pc = "called"])

\* the task from its start to the await, given the answer of the confirm
\* dialog: the request is sent, or the task ends
delete_task(task, confirmed) ==
    IF confirmed THEN Some([task EXCEPT !.pc = "called"]) ELSE None

\* the oldest spawned task runs: window.confirm blocks until the user answers
ListConfirm ==
    /\ \E i \in 1..Len(dels) : \E confirmed \in BOOLEAN :
          /\ dels[i].pc = "spawned"
          /\ \A j \in 1..(i - 1) : dels[j].pc # "spawned"
          /\ dels' = SubSeq(dels, 1, i - 1) \o delete_task(dels[i], confirmed)
                        \o SubSeq(dels, i + 1, Len(dels))
          /\ event' = Event("confirm", dels[i].id, confirmed, Ok(Unit))
    /\ UNCHANGED <<serverVars, form, formCall, dev, saves, overtaken, home, idea_list>>
    /\ UNCHANGED otherVars

\* the task from the await to its end, given the call's result
delete_task_resume(h, result) == IF result.ok THEN on_delete_success(h) ELSE h

\* the server serves the request of a task, and the task runs to its end
ListDeleteReturn ==
    /\ \E i \in 1..Len(dels) :
          LET result == delete_idea_server(store, dels[i].id).result
          IN /\ dels[i].pc = "called"
             /\ ServeDelete(dels[i].id)
             /\ home' = delete_task_resume(home, result)
             /\ event' = Event("delete", dels[i].id, TRUE, result)
             /\ dels' = SubSeq(dels, 1, i - 1) \o SubSeq(dels, i + 1, Len(dels))
    /\ UNCHANGED <<last, form, formCall, dev, saves, overtaken, idea_list, otherVars>>

\* the call of a task fails at the store or on the way
ListDeleteFail ==
    /\ \E i \in 1..Len(dels) :
          /\ dels[i].pc = "called"
          /\ home' = delete_task_resume(home, Err(StoreFailure))
          /\ event' = Event("delete", dels[i].id, TRUE, Err(StoreFailure))
          /\ dels' = SubSeq(dels, 1, i - 1) \o SubSeq(dels, i + 1, Len(dels))
    /\ UNCHANGED <<serverVars, form, formCall, dev, saves, overtaken, idea_list, otherVars>>

(***************************************************************************)
(* The Development view (views/idea_development.rs).                       *)
(***************************************************************************)
DevClosed ==
    [open |-> FALSE, id |-> EmptyStr, idea_data |-> None,
     what_must_be_true |-> <<>>, development_notes |-> EmptyStr,
     new_statement |-> EmptyStr, is_saving |-> FALSE]

\* what the user types into a statement, the new-statement input, the notes
StatementInputs == {EmptyStr, <<"y">>}
NewStatementInputs == {EmptyStr, <<"x">>}
NotesInputs == {EmptyStr, <<"n">>}

\* the ids the view is opened with: the ideas of the list
DevIds == {ThingToString(Thing(IdeasTable, k)) : k \in Keys}

Loaded == dev.open /\ IsSome(dev.idea_data) /\ Unwrap(dev.idea_data).ok

\* auto_save sending the buffers as they were before the edit
auto_save_before_edit(wmbt, notes) ==
    IF IsSome(dev.idea_data) /\ Unwrap(dev.idea_data).ok
    THEN LET idea == Unwrap(dev.idea_data).val
         IN Append(saves,
                   [pc |-> "spawned",
                    id |-> IF IsSome(idea.id) THEN Unwrap(idea.id) ELSE EmptyStr,
                    args |-> [title |-> idea.title, description |-> idea.description,
                              tags |-> idea.tags,
                              what_must_be_true |-> dev.what_must_be_true,
                              development_notes |-> dev.development_notes]])
    ELSE saves

\* auto_save sending no notes
auto_save_drops_notes(wmbt, notes) ==
    IF IsSome(dev.idea_data) /\ Unwrap(dev.idea_data).ok
    THEN LET idea == Unwrap(dev.idea_data).val
         IN Append(saves,
                   [pc |-> "spawned",
                    id |-> IF IsSome(idea.id) THEN Unwrap(idea.id) ELSE EmptyStr,
                    args |-> [title |-> idea.title, description |-> idea.description,
                              tags |-> idea.tags, what_must_be_true |-> wmbt,
                              development_notes |-> EmptyStr]])
    ELSE saves

\* auto_save, called with the edit buffers as the edit left them: a task is
\* spawned with the fetched idea's id, title, description and tags and a
\* copy of the buffers
auto_save(wmbt, notes) ==
    IF IsSome(dev.idea_data) /\ Unwrap(dev.idea_data).ok
    THEN LET idea == Unwrap(dev.idea_data).val
         IN Append(saves,
                   [pc |-> "spawned",
                    id |-> IF IsSome(idea.id) THEN Unwrap(idea.id) ELSE EmptyStr,
                    args |-> [title |-> idea.title, description |-> idea.description,
                              tags |-> idea.tags, what_must_be_true |-> wmbt,
                              development_notes |-> notes]])
    ELSE saves

\* the user follows the link of an idea of the list: the route renders
\* IdeaDevelopment { id } in place of Home, whose Form is dropped (here once
\* no submission is in flight); the view then stays open
DevOpen ==
    /\ ~dev.open
    /\ InFlight = 0
    /\ \E id \in DevIds : dev' = [DevClosed EXCEPT !.open = TRUE, !.id = id]
    /\ form' = FormInit
    /\ home' = HomeInit
    /\ event' = NoEvent
    /\ idea_list' = ListInit
    /\ UNCHANGED <<serverVars, formCall, saves, overtaken, dels, otherVars>>

\* use_resource: get_idea_by_id_server answers; use_effect seeds the buffers
DevLoad ==
    /\ dev.open
    /\ dev.idea_data = None
    /\ ServeGetById(dev.id)
    /\ LET r == get_idea_by_id_server(store, dev.id).result
       IN dev' = IF r.ok
                 THEN [dev EXCEPT !.idea_data = Some(r),
                                  !.what_must_be_true = r.val.what_must_be_true,
                                  !.development_notes = r.val.development_notes]
                 ELSE [dev EXCEPT !.idea_data = Some(r)]
    /\ UNCHANGED <<last, form, formCall, saves, overtaken, home, event>>
    /\ UNCHANGED <<listVars, otherVars>>

\* oninput of the statement at idx
DevEditStatement ==
    /\ Loaded
    /\ Len(saves) < MaxSaves
    /\ \E idx \in 1..Len(dev.what_must_be_true) : \E v \in StatementInputs :
          LET list == [dev.what_must_be_true EXCEPT ![idx] = v]
          IN /\ dev' = [dev EXCEPT !.what_must_be_true = list]
             /\ saves' = auto_save(list, dev.development_notes)
    /\ UNCHANGED <<serverVars, form, formCall, overtaken, home, event>>
    /\ UNCHANGED <<listVars, otherVars>>

\* onclick of the delete button of the statement at idx
DevRemoveStatement ==
    /\ Loaded
    /\ Len(saves) < MaxSaves
    /\ \E idx \in 1..Len(dev.what_must_be_true) :
          LET old == dev.what_must_be_true
              list == SubSeq(old, 1, idx - 1) \o SubSeq(old, idx + 1, Len(old))
          IN /\ dev' = [dev EXCEPT !.what_must_be_true = list]
             /\ saves' = auto_save(list, dev.development_notes)
    /\ UNCHANGED <<serverVars, form, formCall, overtaken, home, event>>
    /\ UNCHANGED <<listVars, otherVars>>

\* oninput of the new-statement input
DevNewStatementInput ==
    /\ Loaded
    /\ \E v \in NewStatementInputs : dev' = [dev EXCEPT !.new_statement = v]
    /\ UNCHANGED <<serverVars, form, formCall, saves, overtaken, home, event>>
    /\ UNCHANGED <<listVars, otherVars>>

\* onclick of the add button; with an empty input it does nothing
DevAddStatement ==
    /\ Loaded
    /\ Len(saves) < MaxSaves
    /\ Len(dev.what_must_be_true) < MaxList
    /\ dev.new_statement # EmptyStr
    /\ LET list == Append(dev.what_must_be_true, dev.new_statement)
       IN /\ dev' = [dev EXCEPT !.what_must_be_true = list,
                                !.new_statement = EmptyStr]
          /\ saves' = auto_save(list, dev.development_notes)
    /\ UNCHANGED <<serverVars, form, formCall, overtaken, home, event>>
    /\ UNCHANGED <<listVars, otherVars>>

\* oninput of the notes
DevNotesInput ==
    /\ Loaded
    /\ Len(saves) < MaxSaves
    /\ \E v \in NotesInputs :
          /\ dev' = [dev EXCEPT !.development_notes = v]
          /\ saves' = auto_save(dev.what_must_be_true, v)
    /\ UNCHANGED <<serverVars, form, formCall, overtaken, home, event>>
    /\ UNCHANGED <<listVars, otherVars>>

Remove(seq, i) == SubSeq(seq, 1, i - 1) \o SubSeq(seq, i + 1, Len(seq))

\* whether the server has served a save of the view before a save spawned
\* earlier: "no", or only before ones not yet sent ("unsent"), or before
\* one that was sent and had not returned ("sent")
Overtaking(before, tasks, i) ==
    IF before = "sent" \/ \E j \in 1..(i - 1) : tasks[j].pc = "called" THEN "sent"
    ELSE IF i > 1 THEN "unsent"
    ELSE before

\* a spawned task runs up to the await: is_saving.set(true), request sent
SaveCall ==
    /\ \E i \in 1..Len(saves) :
          /\ saves[i].pc = "spawned"
          /\ saves' = [saves EXCEPT ![i].pc = "called"]
    /\ dev' = [dev EXCEPT !.is_saving = TRUE]
    /\ UNCHANGED <<serverVars, form, formCall, overtaken, home, event>>
    /\ UNCHANGED <<listVars, otherVars>>

\* the server serves the request of a task, whichever was sent first, and the
\* task runs to its end: the response is dropped, is_saving.set(false)
SaveReturn ==
    /\ \E i \in 1..Len(saves) :
          /\ saves[i].pc = "called"
          /\ ServeUpdate(saves[i].id, saves[i].args)
          /\ saves' = Remove(saves, i)
          /\ overtaken' = Overtaking(overtaken, saves, i)
    /\ dev' = [dev EXCEPT !.is_saving = FALSE]
    /\ UNCHANGED <<last, form, formCall, home, event>>
    /\ UNCHANGED <<listVars, otherVars>>

(***************************************************************************)
(* Initial state: an empty store, the Home route with an empty Form.       *)
(***************************************************************************)
Init ==
    /\ store = EmptyStore
    /\ last = Call("none", EmptyStr, NoArgs, None, Ok(Unit))
    /\ submitted = [x \in {} |-> None]
    /\ deleted = {}
    /\ live = {}
    /\ form = FormInit
    /\ formCall = None
    /\ dev = DevClosed
    /\ saves = <<>>
    /\ overtaken = "no"
    /\ home = HomeInit
    /\ event = NoEvent
    /\ idea_list = ListInit
    /\ dels = <<>>
    /\ cells = [c \in {DB, TEST_DB} |-> CellInit]
    /\ calls = [p \in Callers |-> CallerInit]
    /\ test_store = EmptyStore
    /\ conv = NoConv

(***************************************************************************)
(* SpecConv: one stored document is deserialized and converted.            *)
(***************************************************************************)
ConvIds ==
    {None} \cup {Some(Thing(tb, k)) : tb \in {IdeasTable, OtherTable}, k \in Keys}
ConvTitles == {<<"t">>, <<"u">>}
ConvDescriptions == {EmptyStr, <<"d">>}
ConvLists == {<<>>, << <<"a">>, <<"b">> >>, << <<"b">>, <<"a">> >>}
ConvNotes == {EmptyStr, <<"n">>}

\* the documents of this version, and those written before the development
\* fields existed
Documents ==
    {Document(id, t, d, tags, wmbt, notes) :
        id \in ConvIds, t \in ConvTitles, d \in ConvDescriptions, tags \in ConvLists,
        wmbt \in {None} \cup {Some(l) : l \in ConvLists},
        notes \in {None} \cup {Some(n) : n \in ConvNotes}}

InitConv ==
    /\ store = EmptyStore
    /\ last = Call("none", EmptyStr, NoArgs, None, Ok(Unit))
    /\ submitted = [x \in {} |-> None]
    /\ deleted = {}
    /\ live = {}
    /\ form = FormInit
    /\ formCall = None
    /\ dev = DevClosed
    /\ saves = <<>>
    /\ overtaken = "no"
    /\ home = HomeInit
    /\ event = NoEvent
    /\ idea_list = ListInit
    /\ dels = <<>>
    /\ cells = [c \in {DB, TEST_DB} |-> CellInit]
    /\ calls = [p \in Callers |-> CallerInit]
    /\ test_store = EmptyStore
    /\ \E doc \in Documents : conv = [doc |-> doc, record |-> None, idea |-> None]

\* the store call's result is deserialized into an IdeaRecord
ConvDeserialize ==
    /\ conv.record = None
    /\ conv' = [conv EXCEPT !.record = Some(DeserializeIdeaRecord(conv.doc))]
    /\ UNCHANGED <<serverVars, viewVars, cells, calls, test_store>>

\* record.into()
ConvInto ==
    /\ IsSome(conv.record)
    /\ conv.idea = None
    /\ conv' = [conv EXCEPT !.idea = Some(IdeaFromRecord(Unwrap(conv.record)))]
    /\ UNCHANGED <<serverVars, viewVars, cells, calls, test_store>>

NextConv == ConvDeserialize \/ ConvInto

SpecConv == InitConv /\ [][NextConv]_vars

(***************************************************************************)
(* SpecDb: concurrent callers of get_db and get_test_db, each of which     *)
(* then creates one record through the handle it got.                      *)
(***************************************************************************)
\* a caller enters get_db or get_test_db: get_or_init returns the value of
\* a cell that is set, and waits for the permit of one that is not
GetDbCall ==
    /\ \E p \in Callers : \E fn \in {"get_db", "get_test_db"} :
          LET cell == IF fn = "get_db" THEN get_db ELSE get_test_db
          IN /\ calls[p].pc = "idle"
             /\ calls' = [calls EXCEPT ![p] =
                            IF IsSome(cells[cell].value)
                            THEN [pc |-> "have", fn |-> fn, cell |-> cell,
                                  handle |-> cells[cell].value]
                            ELSE [pc |-> "waiting", fn |-> fn, cell |-> cell,
                                  handle |-> None]]
    /\ UNCHANGED <<serverVars, viewVars, cells, test_store, conv>>

\* a waiting caller gets the permit and starts the initialization
OnceStart ==
    /\ \E p \in Callers :
          LET cell == calls[p].cell
          IN /\ calls[p].pc = "waiting"
             /\ get_or_init(cells[cell])
             /\ cells' = [cells EXCEPT ![cell].permit = TRUE,
                                        ![cell].runs = cells[cell].runs + 1]
             /\ calls' = [calls EXCEPT ![p].pc = "init"]
    /\ UNCHANGED <<serverVars, viewVars, test_store, conv>>

\* a waiting caller finds the cell set by another caller
OnceWake ==
    /\ \E p \in Callers :
          LET cell == calls[p].cell
          IN /\ calls[p].pc = "waiting"
             /\ IsSome(cells[cell].value)
             /\ calls' = [calls EXCEPT ![p].pc = "have",
                                        ![p].handle = cells[cell].value]
    /\ UNCHANGED <<serverVars, viewVars, cells, test_store, conv>>

\* the initialization completes: the cell is set to the new handle, which
\* the caller returns
OnceSet ==
    /\ \E p \in Callers :
          LET cell == calls[p].cell
              handle == [cell |-> cell, run |-> cells[cell].runs]
          IN /\ calls[p].pc = "init"
             /\ cells' = [cells EXCEPT ![cell].value = Some(handle),
                                        ![cell].permit = FALSE]
             /\ calls' = [calls EXCEPT ![p].pc = "have", ![p].handle = Some(handle)]
    /\ UNCHANGED <<serverVars, viewVars, test_store, conv>>

\* the store cannot be opened and expect panics: the permit is given back
\* and the cell stays empty
OncePanic ==
    /\ \E p \in Callers :
          LET cell == calls[p].cell
          IN /\ calls[p].pc = "init"
             /\ cells' = [cells EXCEPT ![cell].permit = FALSE]
             /\ calls' = [calls EXCEPT ![p].pc = "panicked"]
    /\ UNCHANGED <<serverVars, viewVars, test_store, conv>>

\* the record a caller creates: submit_idea_server's after get_db, and
\* create_test_idea's after get_test_db
CallerRecord(fn) ==
    IF fn = "get_db"
    THEN IdeaRecord(None, <<"t">>, <<"d">>, << <<"a">>, <<"b">> >>, <<>>, EmptyStr)
    ELSE IdeaRecord(None, <<"T">>, <<"D">>, << <<"t">> >>, <<>>, EmptyStr)

\* a caller creates its record through the handle it holds
UseHandle ==
    /\ \E p \in Callers :
          LET backing == Backing(Unwrap(calls[p].handle).cell)
              db == IF backing = "ideas.db" THEN store ELSE test_store
          IN /\ calls[p].pc = "have"
             /\ \E key \in FreshKeys(db, IdeasTable) :
                   LET created == DbCreate(db, IdeasTable, key, CallerRecord(calls[p].fn))
                   IN /\ store' = IF backing = "ideas.db" THEN created.db ELSE store
                      /\ test_store' = IF backing = "mem" THEN created.db ELSE test_store
             /\ calls' = [calls EXCEPT ![p].pc = "done"]
    /\ UNCHANGED <<last, submitted, deleted, live, viewVars, cells, conv>>

NextDb == GetDbCall \/ OnceStart \/ OnceWake \/ OnceSet \/ OncePanic \/ UseHandle

SpecDb == Init /\ [][NextDb]_vars

(***************************************************************************)
(* Spec: the endpoints called directly, with any request.                  *)
(***************************************************************************)
Submit ==
    /\ \E in \in SubmitInputs : \E key \in FreshKeys(store, IdeasTable) :
          /\ ServeSubmit(key, in)
          /\ last' = Call("submit", EmptyStr, in, None, SubmitOf(key, in).result)
    /\ UNCHANGED <<viewVars, otherVars>>

ListAll ==
    /\ \E order \in Orders(store) :
          /\ ServeListAll(order)
          /\ last' = Call("list", EmptyStr, NoArgs, None,
                          get_all_ideas_server(store, order).result)
    /\ UNCHANGED <<viewVars, otherVars>>

GetById ==
    /\ \E id \in IdStrings :
          /\ ServeGetById(id)
          /\ last' = Call("get", id, NoArgs, Held(store, id),
                          get_idea_by_id_server(store, id).result)
    /\ UNCHANGED <<viewVars, otherVars>>

Update ==
    /\ \E id \in IdStrings : \E in \in UpdateInputs :
          /\ ServeUpdate(id, in)
          /\ last' = Call("update", id, in, Held(store, id), UpdateOf(id, in).result)
    /\ UNCHANGED <<viewVars, otherVars>>

Delete ==
    /\ \E id \in IdStrings :
          /\ ServeDelete(id)
          /\ last' = Call("delete", id, NoArgs, Held(store, id),
                          delete_idea_server(store, id).result)
    /\ UNCHANGED <<viewVars, otherVars>>

Next == Submit \/ ListAll \/ GetById \/ Update \/ Delete

Spec == Init /\ [][Next]_vars

(***************************************************************************)
(* SpecUI: the endpoints called by the Form and the Development view.      *)
(***************************************************************************)
NextUI ==
    \/ HomeShowForm
    \/ FormTitleInput
    \/ FormDescriptionInput
    \/ FormTagsInput
    \/ FormSubmitCall
    \/ FormSubmitReturn
    \/ DevOpen
    \/ DevLoad
    \/ DevEditStatement
    \/ DevRemoveStatement
    \/ DevNewStatementInput
    \/ DevAddStatement
    \/ DevNotesInput
    \/ SaveCall
    \/ SaveReturn

SpecUI == Init /\ [][NextUI]_vars

(***************************************************************************)
(* SpecHome: the Home route, whose Form and List call the endpoints; a     *)
(* call may fail at the store or on the way.                               *)
(***************************************************************************)
NextHome ==
    \/ HomeShowForm
    \/ FormTitleInput
    \/ FormDescriptionInput
    \/ FormTagsInput
    \/ FormSubmitCall
    \/ FormSubmitReturn
    \/ FormSubmitFail
    \/ ListFetch
    \/ ListFetchFail
    \/ ListDeleteClick
    \/ ListConfirm
    \/ ListDeleteReturn
    \/ ListDeleteFail

SpecHome == Init /\ [][NextHome]_vars

(***************************************************************************)
(* Vocabulary of the claims, stated without the endpoints' own parsing.    *)
(***************************************************************************)
ColonCount(s) == Cardinality({i \in 1..Len(s) : s[i] = Colon})

\* "<table>:<key>", one colon
OneColon(s) == ColonCount(s) = 1

\* one colon, and a non-empty part on either side of it
TwoNonEmptyParts(s) == OneColon(s) /\ s[1] # Colon /\ s[Len(s)] # Colon

SameContent(idea, in) ==
    /\ idea.title = in.title
    /\ idea.description = in.description
    /\ idea.tags = in.tags

SameDevelopment(idea, in) ==
    /\ idea.what_must_be_true = in.what_must_be_true
    /\ idea.development_notes = in.development_notes

Get(db, id) == get_idea_by_id_server(db, id).result

Upd(db, id, in) ==
    update_idea_server(db, id, in.title, in.description, in.tags,
                       in.what_must_be_true, in.development_notes)

Listed(db, order) == get_all_ideas_server(db, order).result

Range(seq) == {seq[i] : i \in 1..Len(seq)}

(***************************************************************************)
(* C1.  Submit returns an Idea with a present id that carries the          *)
(* submitted title, description and tags and an empty checklist and empty  *)
(* notes; as long as no Update or Delete request has named that id,        *)
(* GetById on it returns that same Idea.                                   *)
(***************************************************************************)
C1_SubmitThenGet ==
    /\ last.op = "submit" =>
          /\ last.result.ok
          /\ IsSome(last.result.val.id)
          /\ SameContent(last.result.val, last.args)
          /\ last.result.val.what_must_be_true = <<>>
          /\ last.result.val.development_notes = EmptyStr
    /\ \A id \in DOMAIN submitted :
          LET g == Get(store, id)
          IN /\ g.ok
             /\ g.val = submitted[id].idea
             /\ g.val.id = Some(id)
             /\ SameContent(g.val, submitted[id].args)
             /\ g.val.what_must_be_true = <<>>
             /\ g.val.development_notes = EmptyStr
    /\ (last.op = "get" /\ last.id \in DOMAIN submitted) =>
          last.result = Ok(submitted[last.id].idea)

C1_Witness ==
    /\ last.op = "get"
    /\ last.id \in DOMAIN submitted
    /\ last.result.ok
    /\ last.result.val.tags # <<>>
    /\ Cardinality(DOMAIN submitted) = 2

(***************************************************************************)
(* C2 (as claimed).  GetById, Update and Delete answer with the format     *)
(* error whenever the id does not consist of exactly two non-empty parts   *)
(* around one colon.                                                       *)
(***************************************************************************)
C2_FormatErrorUnlessTwoNonEmptyParts ==
    (last.op \in {"get", "update", "delete"} /\ ~TwoNonEmptyParts(last.id)) =>
        (~last.result.ok /\ last.result.err = InvalidIdFormat)

(***************************************************************************)
(* C3.  After a successful Update, GetById on the same id returns exactly  *)
(* the five content fields the Update was given, whatever the record held  *)
(* before.                                                                 *)
(***************************************************************************)
C3_UpdateThenGet ==
    /\ (last.op = "update" /\ last.result.ok) =>
          LET g == Get(store, last.id)
          IN /\ g.ok
             /\ SameContent(g.val, last.args)
             /\ SameDevelopment(g.val, last.args)
             /\ SameContent(last.result.val, last.args)
             /\ SameDevelopment(last.result.val, last.args)
    /\ \A id \in IdStrings : \A in \in UpdateInputs :
          LET u == Upd(store, id, in)
              g == Get(u.db, id)
          IN u.result.ok =>
                /\ g.ok
                /\ SameContent(g.val, in)
                /\ SameDevelopment(g.val, in)

\* an idea with a checklist and notes is updated to an empty checklist and
\* empty notes, and every field of it changes
C3_Witness ==
    /\ last.op = "update"
    /\ last.result.ok
    /\ last.args.what_must_be_true = <<>>
    /\ last.args.development_notes = EmptyStr
    /\ IsSome(last.prior)
    /\ Unwrap(last.prior).what_must_be_true # <<>>
    /\ Unwrap(last.prior).development_notes # EmptyStr
    /\ Unwrap(last.prior).title # last.args.title
    /\ Unwrap(last.prior).description # last.args.description
    /\ Unwrap(last.prior).tags # last.args.tags

(***************************************************************************)
(* C4.  Once Delete has removed a stored idea, GetById on its id answers   *)
(* not-found and ListAll lists no idea with that id, until a Submit        *)
(* returns the id again.                                                   *)
(***************************************************************************)
C4_DeleteThenGone ==
    /\ (last.op = "delete" /\ last.result.ok /\ IsSome(last.prior)) => last.id \in deleted
    /\ \A id \in deleted :
          /\ Get(store, id) = Err(IdeaNotFound)
          /\ \A order \in Orders(store) :
                \A idea \in Range(Listed(store, order).val) : idea.id # Some(id)
    /\ (last.op = "get" /\ last.id \in deleted) => last.result = Err(IdeaNotFound)
    /\ (last.op = "list" /\ last.result.ok) =>
          \A idea \in Range(last.result.val) :
              \A id \in deleted : idea.id # Some(id)

\* a deleted idea is looked up while another idea is still stored, after an
\* Update request has named the deleted id
C4_Witness ==
    /\ last.op = "get"
    /\ last.id \in deleted
    /\ last.result = Err(IdeaNotFound)
    /\ store # EmptyStore

(***************************************************************************)
(* C5.  GetById with a one-colon id under which the store holds no record  *)
(* answers with the not-found error, which is not the format error, and    *)
(* returns no Idea.                                                        *)
(***************************************************************************)
C5_GetMissingIsNotFound ==
    /\ IdeaNotFound # InvalidIdFormat
    /\ \A id \in IdStrings :
          (OneColon(id) /\ id \notin StoredIds(store)) =>
              Get(store, id) = Err(IdeaNotFound)
    /\ (last.op = "get" /\ OneColon(last.id) /\ ~IsSome(last.prior)) =>
          (~last.result.ok /\ last.result.err = IdeaNotFound)

\* the id's key is stored, but under the ideas table and not under the
\* table the id names
C5_Witness ==
    /\ last.op = "get"
    /\ last.id = ThingToString(Thing(OtherTable, Key(1)))
    /\ Thing(IdeasTable, Key(1)) \in DOMAIN store
    /\ last.result = Err(IdeaNotFound)

(***************************************************************************)
(* C6.  Update with a one-colon id under which the store holds no record   *)
(* answers with the not-found error and leaves the store as it was.        *)
(***************************************************************************)
C6_UpdateMissingIsNotFound ==
    /\ \A id \in IdStrings : \A in \in UpdateInputs :
          (OneColon(id) /\ id \notin StoredIds(store)) =>
              LET u == Upd(store, id, in)
              IN u.result = Err(IdeaNotFound) /\ u.db = store
    /\ (last.op = "update" /\ OneColon(last.id) /\ ~IsSome(last.prior)) =>
          /\ last.result = Err(IdeaNotFound)
          /\ last.id \notin StoredIds(store)

\* an Update arrives for an idea that was deleted
C6_Witness ==
    /\ last.op = "update"
    /\ last.id \in deleted
    /\ last.result = Err(IdeaNotFound)
    /\ last.id \notin StoredIds(store)

(***************************************************************************)
(* C7.  ListAll succeeds and returns one converted Idea for each record of *)
(* the ideas collection and nothing else: the ideas listed are those       *)
(* submitted and not deleted, each with a present id; on an empty store    *)
(* the answer is the empty sequence.                                       *)
(***************************************************************************)
ListsExactly(db, ideas) ==
    /\ Len(ideas) = Cardinality(TableThings(db, IdeasTable))
    /\ \A t \in TableThings(db, IdeasTable) :
          \E i \in 1..Len(ideas) : ideas[i] = IdeaFromRecord(db[t])
    /\ \A i \in 1..Len(ideas) : IsSome(ideas[i].id)
    /\ {Unwrap(ideas[i].id) : i \in 1..Len(ideas)} = live
    /\ Len(ideas) = Cardinality(live)

C7_ListAllExact ==
    /\ \A order \in Orders(store) :
          LET r == Listed(store, order)
          IN r.ok /\ ListsExactly(store, r.val)
    /\ last.op = "list" => (last.result.ok /\ ListsExactly(store, last.result.val))
    /\ (last.op = "list" /\ store = EmptyStore) => last.result = Ok(<<>>)

\* a list of one idea after two were submitted, one of them updated and the
\* other deleted
C7_Witness ==
    /\ last.op = "list"
    /\ Len(last.result.val) = 1
    /\ deleted # {}
    /\ last.result.val[1].what_must_be_true # <<>>

(***************************************************************************)
(* C8.  Every Idea an endpoint returns has a present id; Update returns    *)
(* the id it was called with; every record is stored with the id it is     *)
(* stored under, and an idea that was submitted and not deleted is still   *)
(* stored under the id Submit returned.                                    *)
(***************************************************************************)
C8_IdStable ==
    /\ \A t \in DOMAIN store : store[t].id = Some(t)
    /\ live \subseteq StoredIds(store)
    /\ (last.op \in {"submit", "get", "update"} /\ last.result.ok) =>
          IsSome(last.result.val.id)
    /\ (last.op = "list" /\ last.result.ok) =>
          \A idea \in Range(last.result.val) : IsSome(idea.id)
    /\ (last.op \in {"get", "update"} /\ last.result.ok) =>
          last.result.val.id = Some(last.id)
    /\ \A id \in IdStrings : \A in \in UpdateInputs :
          LET u == Upd(store, id, in)
          IN u.result.ok =>
                /\ u.result.val.id = Some(id)
                /\ StoredIds(u.db) = StoredIds(store)

C8_Witness ==
    /\ last.op = "update"
    /\ last.result.ok
    /\ last.result.val.id = Some(last.id)
    /\ Cardinality(DOMAIN store) = 2

(***************************************************************************)
(* C9 (as claimed).  No stored idea has the empty string among its tags or *)
(* among the statements of its checklist, whatever the Form and the        *)
(* Development view have sent.                                             *)
(***************************************************************************)
NoEmptyTag(record) == \A i \in 1..Len(record.tags) : record.tags[i] # EmptyStr

NoEmptyStatement(record) ==
    \A i \in 1..Len(record.what_must_be_true) : record.what_must_be_true[i] # EmptyStr

C9_NoEmptyElements ==
    \A t \in DOMAIN store : NoEmptyTag(store[t]) /\ NoEmptyStatement(store[t])

(***************************************************************************)
(* C10.  Delete with a one-colon id succeeds whether or not a record is    *)
(* stored under the id, and a second Delete of the same id succeeds too    *)
(* and leaves the store as the first one left it.                          *)
(***************************************************************************)
C10_DeleteIdempotent ==
    /\ \A id \in IdStrings :
          OneColon(id) =>
              LET d1 == delete_idea_server(store, id)
                  d2 == delete_idea_server(d1.db, id)
              IN /\ d1.result = Ok(Unit)
                 /\ d2.result = Ok(Unit)
                 /\ d2.db = d1.db
                 /\ id \notin StoredIds(d1.db)
    /\ (last.op = "delete" /\ OneColon(last.id)) =>
          (last.result = Ok(Unit) /\ last.id \notin StoredIds(store))

\* the second Delete of an idea that the first one removed
C10_Witness ==
    /\ last.op = "delete"
    /\ last.id \in deleted
    /\ ~IsSome(last.prior)
    /\ last.result = Ok(Unit)

(***************************************************************************)
(* C11.  The conversion of a stored document to an Idea is total and       *)
(* lossless: a record id (table, key) becomes the string of the table, a   *)
(* colon and the key, and an absent id stays absent; title, description,   *)
(* tags, checklist and notes are those of the document, in the same order; *)
(* a document without checklist or notes gives the empty sequence and the  *)
(* empty string; two documents that have all fields and differ anywhere    *)
(* give different Ideas.                                                   *)
(***************************************************************************)
IdeaFields ==
    {"id", "title", "description", "tags", "what_must_be_true", "development_notes"}

\* s is tb, then a colon, then key
RendersAs(s, tb, key) ==
    /\ Len(s) = Len(tb) + 1 + Len(key)
    /\ SubSeq(s, 1, Len(tb)) = tb
    /\ s[Len(tb) + 1] = Colon
    /\ SubSeq(s, Len(tb) + 2, Len(s)) = key

Converted(doc) == IdeaFromRecord(DeserializeIdeaRecord(doc))

C11_ConversionLossless ==
    (conv # NoConv /\ IsSome(conv.idea)) =>
        LET doc == conv.doc
            idea == Unwrap(conv.idea)
        IN /\ DOMAIN idea = IdeaFields
           /\ IF IsSome(doc.id)
              THEN /\ IsSome(idea.id)
                   /\ RendersAs(Unwrap(idea.id), Unwrap(doc.id).tb, Unwrap(doc.id).id)
              ELSE idea.id = None
           /\ idea.title = doc.title
           /\ idea.description = doc.description
           /\ idea.tags = doc.tags
           /\ idea.what_must_be_true =
                 (IF "what_must_be_true" \in DOMAIN doc THEN doc.what_must_be_true ELSE <<>>)
           /\ idea.development_notes =
                 (IF "development_notes" \in DOMAIN doc THEN doc.development_notes
                  ELSE EmptyStr)
           /\ DOMAIN doc = IdeaFields =>
                 \A other \in Documents :
                    (DOMAIN other = IdeaFields /\ Converted(other) = idea) => other = doc

\* a document of another table that has neither checklist nor notes, and
\* whose tags are not in alphabetical order
C11_Witness ==
    /\ conv # NoConv
    /\ IsSome(conv.idea)
    /\ DOMAIN conv.doc = {"id", "title", "description", "tags"}
    /\ IsSome(conv.doc.id)
    /\ Unwrap(conv.doc.id).tb = OtherTable
    /\ conv.doc.tags = << <<"b">>, <<"a">> >>
    /\ Unwrap(conv.idea).what_must_be_true = <<>>
    /\ Unwrap(conv.idea).development_notes = EmptyStr

(***************************************************************************)
(* C12.  The Form's submitting flag is set exactly while its Submit call   *)
(* is in flight: the step that issues the call sets it and changes nothing *)
(* else of the Form, the Home view or the store; the step in which the     *)
(* call returns clears it, on success and on failure.  On success the      *)
(* three inputs are empty afterwards and Home's refresh counter has grown  *)
(* by exactly one; on failure the inputs are as before, the error message  *)
(* is shown and the refresh counter is as before.                          *)
(***************************************************************************)
FormInputs(f) == <<f.title, f.description, f.tags_input>>

FormCalls == formCall = None /\ formCall' # None
FormReturns == formCall # None /\ formCall' = None

C12_FormSubmission ==
    /\ [](form.is_submitting <=> formCall # None)
    /\ [][FormCalls =>
            /\ ~form.is_submitting
            /\ form' = [form EXCEPT !.is_submitting = TRUE]
            /\ home' = home
            /\ store' = store]_vars
    /\ [][FormReturns =>
            /\ ~form'.is_submitting
            /\ event'.op = "submit"
            /\ IF event'.result.ok
               THEN /\ FormInputs(form') = <<EmptyStr, EmptyStr, EmptyStr>>
                    /\ home'.refresh_trigger = home.refresh_trigger + 1
                    /\ Cardinality(DOMAIN store') = Cardinality(DOMAIN store) + 1
               ELSE /\ FormInputs(form') = FormInputs(form)
                    /\ form'.success_message = ErrorMessage
                    /\ home' = home
                    /\ store' = store]_vars

\* a submission has failed after an earlier one succeeded: the inputs are
\* still filled in and the counter stands at one
C12_Witness ==
    /\ event.op = "submit"
    /\ ~event.result.ok
    /\ ~form.is_submitting
    /\ formCall = None
    /\ form.title # EmptyStr
    /\ form.tags_input # EmptyStr
    /\ form.success_message = ErrorMessage
    /\ home.refresh_trigger = 1
    /\ Cardinality(DOMAIN store) = 1

(***************************************************************************)
(* C13.  In the List view a Delete call for an idea is issued only in the  *)
(* step in which the user answers yes to the confirm dialog of a click on  *)
(* that idea; a click alone, and a dialog answered no, issue no call and   *)
(* leave store and refresh counter as they are; a record leaves the store  *)
(* only when such a call returns; the refresh counter grows by exactly one *)
(* when a Delete call returns successfully and stays when it fails.        *)
(***************************************************************************)
TasksAt(d, pc) == {i \in 1..Len(d) : d[i].pc = pc}
TasksFor(d, pc, id) == {i \in TasksAt(d, pc) : d[i].id = id}
Count(S) == Cardinality(S)

TaskIds(d) == {d[i].id : i \in 1..Len(d)}

C13_ConfirmThenDelete ==
    /\ [][\A id \in TaskIds(dels') :
            Count(TasksFor(dels', "called", id)) > Count(TasksFor(dels, "called", id)) =>
               /\ event'.op = "confirm"
               /\ event'.confirmed
               /\ event'.id = id
               /\ Count(TasksFor(dels', "called", id)) = Count(TasksFor(dels, "called", id)) + 1
               /\ Count(TasksFor(dels', "spawned", id)) = Count(TasksFor(dels, "spawned", id)) - 1
               /\ store' = store
               /\ home' = home]_vars
    /\ [][Count(TasksAt(dels', "spawned")) > Count(TasksAt(dels, "spawned")) =>
            /\ TasksAt(dels', "called") = TasksAt(dels, "called")
            /\ store' = store
            /\ home' = home]_vars
    /\ [][(Count(TasksAt(dels', "spawned")) < Count(TasksAt(dels, "spawned"))
             /\ ~event'.confirmed) =>
            /\ Count(TasksAt(dels', "called")) = Count(TasksAt(dels, "called"))
            /\ Len(dels') = Len(dels) - 1
            /\ store' = store
            /\ home' = home]_vars
    /\ [][\A t \in (DOMAIN store) \ (DOMAIN store') :
            /\ event'.op = "delete"
            /\ event'.id = ThingToString(t)
            /\ Count(TasksFor(dels', "called", event'.id))
                  = Count(TasksFor(dels, "called", event'.id)) - 1]_vars
    /\ [][Count(TasksAt(dels', "called")) < Count(TasksAt(dels, "called")) =>
            /\ event'.op = "delete"
            /\ IF event'.result.ok
               THEN /\ home'.refresh_trigger = home.refresh_trigger + 1
                    /\ event'.id \notin StoredIds(store')
               ELSE /\ home' = home
                    /\ store' = store]_vars

\* a confirmed Delete has removed the only idea, which the List still shows
C13_Witness ==
    /\ event.op = "delete"
    /\ event.result.ok
    /\ event.id \in deleted
    /\ store = EmptyStore
    /\ home.refresh_trigger = 2
    /\ Len(ListRendered) = 1

(***************************************************************************)
(* C14.  In the ready Development view a step that changes the checklist   *)
(* or the notes buffer spawns exactly one save task, and every save task   *)
(* spawned carries the id under which the view was opened, the title,      *)
(* description and tags as fetched, and both buffers as they are after the *)
(* step; a task issues its Update call once, with what it carries, and the *)
(* store changes under an open view only as that call says.  No step       *)
(* changes the title, description or tags of a stored record, and none     *)
(* under an open view adds or removes a record.                            *)
(***************************************************************************)
Buffers(d) == <<d.what_must_be_true, d.development_notes>>

Fetched == Unwrap(dev.idea_data).val

\* the task a step has spawned carries the fetched fields and the buffers
CarriesBuffers(task) ==
    /\ task.pc = "spawned"
    /\ task.id = dev.id
    /\ SameContent(Fetched, task.args)
    /\ task.args.what_must_be_true = dev'.what_must_be_true
    /\ task.args.development_notes = dev'.development_notes

C14_EditSavesAll ==
    /\ [][(Loaded /\ Buffers(dev') # Buffers(dev)) =>
            /\ Len(saves') = Len(saves) + 1
            /\ SubSeq(saves', 1, Len(saves)) = saves]_vars
    /\ [][Len(saves') > Len(saves) =>
            /\ Loaded
            /\ Len(saves') = Len(saves) + 1
            /\ SubSeq(saves', 1, Len(saves)) = saves
            /\ CarriesBuffers(saves'[Len(saves')])
            /\ store' = store]_vars
    /\ [][(Len(saves') = Len(saves) /\ saves' # saves) =>
            /\ \E i \in 1..Len(saves) :
                  /\ saves[i].pc = "spawned"
                  /\ saves' = [saves EXCEPT ![i].pc = "called"]
            /\ store' = store]_vars
    /\ [][(dev.open /\ store' # store) =>
            \E i \in 1..Len(saves) :
               /\ saves[i].pc = "called"
               /\ saves' = Remove(saves, i)
               /\ DOMAIN store' = DOMAIN store
               /\ \A t \in DOMAIN store :
                     IF ThingToString(t) = saves[i].id
                     THEN /\ SameContent(store'[t], saves[i].args)
                          /\ SameDevelopment(store'[t], saves[i].args)
                     ELSE store'[t] = store[t]]_vars
    /\ [][\A t \in (DOMAIN store) \cap (DOMAIN store') :
            /\ store'[t].title = store[t].title
            /\ store'[t].description = store[t].description
            /\ store'[t].tags = store[t].tags]_vars

\* two saves of an idea with tags are under way, the second with the
\* buffers as they are now and the first with older ones
C14_Witness ==
    /\ Loaded
    /\ Len(saves) = 2
    /\ saves[2].id = dev.id
    /\ saves[2].args.tags # <<>>
    /\ Buffers(dev) = <<saves[2].args.what_must_be_true, saves[2].args.development_notes>>
    /\ Len(dev.what_must_be_true) = 2
    /\ dev.development_notes # EmptyStr
    /\ saves[1].args # saves[2].args

(***************************************************************************)
(* C15 (as claimed).  Whenever an auto-save Update call of the Development *)
(* view has been issued and has not returned, the saving flag is true.     *)
(***************************************************************************)
C15_SavingWhileInFlight ==
    (\E i \in 1..Len(saves) : saves[i].pc = "called") => dev.is_saving

(***************************************************************************)
(* C16.  The saves of one Development view are not served in the order of  *)
(* the edits: once every save has returned, the stored checklist and notes *)
(* of the viewed idea are the view's buffers unless a save was served      *)
(* before one spawned earlier; and when that has happened to a call that   *)
(* was in flight, they can differ (the witness).                           *)
(***************************************************************************)
\* the checklist and notes stored under the id the view was opened with
StoredBuffers ==
    LET things == {t \in DOMAIN store : ThingToString(t) = dev.id}
    IN {Buffers(store[t]) : t \in things}

C16_StaleOnlyByOvertaking ==
    (Loaded /\ saves = <<>> /\ overtaken = "no") => StoredBuffers = {Buffers(dev)}

\* every save has returned, the idea is stored, two Update calls were in
\* flight at once and the later one was served first: the store holds an
\* older edit than the view shows
C16_Witness ==
    /\ Loaded
    /\ saves = <<>>
    /\ ~dev.is_saving
    /\ overtaken = "sent"
    /\ StoredBuffers # {}
    /\ StoredBuffers # {Buffers(dev)}
    /\ dev.what_must_be_true # <<>>

(***************************************************************************)
(* C17 (as claimed).  When an endpoint call of the Form or the List fails, *)
(* the view shows an error afterwards and is otherwise as before: the Form *)
(* keeps its inputs and shows the error message; the List shows its error  *)
(* paragraph after a failed ListAll, and after a failed Delete.            *)
(***************************************************************************)
ListFetches == idea_list'.fetched # idea_list.fetched

DeleteReturns == Count(TasksAt(dels', "called")) < Count(TasksAt(dels, "called"))

C17_FailureShown ==
    /\ [][(FormReturns /\ ~event'.result.ok) =>
            /\ form'.success_message = ErrorMessage
            /\ FormInputs(form') = FormInputs(form)
            /\ home' = home]_vars
    /\ [][(ListFetches /\ ~event'.result.ok) =>
            /\ ListShowsError(idea_list')
            /\ home' = home]_vars
    /\ [][(DeleteReturns /\ ~event'.result.ok) =>
            /\ ListShowsError(idea_list')
            /\ home' = home]_vars

(***************************************************************************)
(* C18.  Vocabulary: the callers that have returned from get_db or         *)
(* get_test_db, and what they have created.                                *)
(***************************************************************************)
Returned(fn) == {p \in Callers : calls[p].fn = fn /\ calls[p].pc \in {"have", "done"}}
Done(fn) == {p \in Callers : calls[p].fn = fn /\ calls[p].pc = "done"}
Running(cell) == {p \in Callers : calls[p].cell = cell /\ calls[p].pc = "init"}
Panicked(cell) == {p \in Callers : calls[p].cell = cell /\ calls[p].pc = "panicked"}

\* every call of the function that has returned got the one handle
SameHandle(fn) ==
    /\ \A p, q \in Returned(fn) : calls[p].handle = calls[q].handle
    /\ \A p \in Returned(fn) :
          IsSome(calls[p].handle) /\ calls[p].handle = cells[calls[p].cell].value

\* no handle of get_test_db is a handle of get_db, and a store holds what
\* the callers of its own function have created and nothing else
Separate ==
    /\ \A p \in Returned("get_db") : \A q \in Returned("get_test_db") :
          /\ calls[p].handle # calls[q].handle
          /\ Backing(Unwrap(calls[p].handle).cell) # Backing(Unwrap(calls[q].handle).cell)
    /\ Cardinality(DOMAIN store) = Cardinality(Done("get_db"))
    /\ Cardinality(DOMAIN test_store) = Cardinality(Done("get_test_db"))
    /\ \A t \in DOMAIN store : SameContent(store[t], CallerRecord("get_db"))
    /\ \A t \in DOMAIN test_store : SameContent(test_store[t], CallerRecord("get_test_db"))

ForeignThings == {Thing(OtherTable, k) : k \in Keys}
ForeignRecord(thing) ==
    IdeaRecord(Some(thing), <<"f">>, <<"g">>, <<>>, <<>>, EmptyStr)

C19_OnlyIdeasCollection ==
    /\ \A t \in DOMAIN store : t.tb = IdeasTable
    /\ \A f \in ForeignThings : \A id \in IdStrings :
          LET db == With(store, f, ForeignRecord(f))
          IN /\ ~Get(db, id).ok \/ Get(db, id).val # IdeaFromRecord(ForeignRecord(f))
             /\ \A in \in UpdateInputs :
                   LET u == Upd(db, id, in)
                   IN f \in DOMAIN u.db /\ u.db[f] = ForeignRecord(f)
             /\ LET d == delete_idea_server(db, id)
                IN f \in DOMAIN d.db /\ d.db[f] = ForeignRecord(f)

(***************************************************************************)
(* C20.  Each endpoint changes at most the record it addresses.  Submit    *)
(* adds one record under an id not in use and leaves the others as they    *)
(* are; a successful Update changes nothing but the record under its id    *)
(* and neither adds nor removes one; Delete removes nothing but the record *)
(* under its id and changes none; GetById, ListAll, and every call that    *)
(* answers with an error, leave the store as it is.  Stated of every       *)
(* request in every reachable store, and of every step.                    *)
(***************************************************************************)
\* the two stores hold the same record wherever the id is not the given one
SameExcept(db1, db2, id) ==
    \A t \in (DOMAIN db1) \cup (DOMAIN db2) :
        ThingToString(t) # id => (t \in DOMAIN db1 /\ t \in DOMAIN db2 /\ db1[t] = db2[t])

C20_Frame ==
    /\ [](/\ \A in \in SubmitInputs : \A key \in FreshKeys(store, IdeasTable) :
               LET r == submit_idea_server(store, key, in.title, in.description, in.tags)
               IN /\ r.result.ok
                  /\ Cardinality(DOMAIN r.db) = Cardinality(DOMAIN store) + 1
                  /\ Unwrap(r.result.val.id) \notin StoredIds(store)
                  /\ SameExcept(store, r.db, Unwrap(r.result.val.id))
          /\ \A id \in IdStrings : \A in \in UpdateInputs :
               LET u == Upd(store, id, in)
               IN IF u.result.ok
                  THEN DOMAIN u.db = DOMAIN store /\ SameExcept(store, u.db, id)
                  ELSE u.db = store
          /\ \A id \in IdStrings :
               LET d == delete_idea_server(store, id)
               IN /\ DOMAIN d.db \subseteq DOMAIN store
                  /\ SameExcept(store, d.db, id)
                  /\ ~d.result.ok => d.db = store
          /\ \A id \in IdStrings : get_idea_by_id_server(store, id).db = store
          /\ \A order \in Orders(store) : get_all_ideas_server(store, order).db = store)
    /\ [][/\ last'.op \in {"get", "list"} => store' = store
          /\ ~last'.result.ok => store' = store
          /\ last'.op = "submit" =>
                /\ Cardinality(DOMAIN store') = Cardinality(DOMAIN store) + 1
                /\ SameExcept(store, store', Unwrap(last'.result.val.id))
          /\ last'.op = "update" =>
                /\ DOMAIN store' = DOMAIN store
                /\ SameExcept(store, store', last'.id)
          /\ last'.op = "delete" =>
                /\ DOMAIN store' \subseteq DOMAIN store
                /\ SameExcept(store, store', last'.id)]_vars

\* one of two stored ideas has been deleted and the other is still stored
\* with the checklist an Update gave it
C20_Witness ==
    /\ last.op = "delete"
    /\ last.result.ok
    /\ IsSome(last.prior)
    /\ Cardinality(DOMAIN store) = 1
    /\ \E t \in DOMAIN store : store[t].what_must_be_true # <<>>

====
